---- MODULE Spec2Model ----
(***************************************************************************)
(* Model of src/assignment.py: ProductDiffer.main, the generator that      *)
(* reads a "before" and an "after" CSV file and yields the stream of       *)
(* (operation, id, payload) triples.                                       *)
(*                                                                         *)
(* A behaviour is one consumer driving the generator: every next() call    *)
(* runs the generator body up to its next yield (or to its end), close()   *)
(* raises GeneratorExit at the yield where it is suspended, and main() may *)
(* be called again on the same two files.                                  *)
(***************************************************************************)
EXTENDS Integers, Sequences, FiniteSets, TLC

\* Bounds of the model.
MaxRows == 3        \* data rows of the two files taken together
MaxCols == 2        \* columns of a file

Cells == {"1", "2"}              \* cell values (ids are cells of column 0)
HeaderNames == {"id", "name"}    \* column names of a header row

Range(s) == {s[i] : i \in 1..Len(s)}
SeqsOf(S, lo, hi) == UNION {[1..n -> S] : n \in lo..hi}

\* Header rows: one to MaxCols names, a name may repeat. The first name is
\* fixed, the names being interchangeable labels.
HeaderRows == {h \in SeqsOf(HeaderNames, 1, MaxCols) : h[1] = "id"}

\* Data rows under a header row: a cell per column, a row one cell short, or
\* a blank line, which csv.reader delivers as the empty list.
DataRows(headers) ==
    {<<>>} \cup SeqsOf(Cells, Len(headers) - 1, Len(headers))

\* Python's None.
None == [none |-> TRUE]

VARIABLES
    before_csv,        \* rows of the file at path_to_before_csv, header row first
    after_csv,         \* rows of the file at path_to_after_csv, header row first
    open_files,        \* which of the two file handles of the with statement are open
    before_products,   \* list returned by prepare_data for the before file
    after_products,    \* list returned by prepare_data for the after file
    pc,                \* position of the generator
    idx,               \* index of the product whose operation was yielded last
    out,               \* operations the consumer received in this run
    prev_out,          \* operations the consumer received in the previous, finished run
    run                \* 1 in the first call of main(), 2 in the second

vars == <<before_csv, after_csv, open_files, before_products, after_products,
          pc, idx, out, prev_out, run>>

files == <<before_csv, after_csv>>

-----------------------------------------------------------------------------
(* convert_data_from_csv                                                   *)

\* product[0] or product[idx] raises IndexError: a row with no cell, or with
\* fewer cells than there are headers.
RaisesIndexError(csv_products, headers) ==
    \E r \in 1..Len(csv_products) :
        \/ Len(csv_products[r]) = 0
        \/ Len(csv_products[r]) < Len(headers)

\* The dict built by the inner loop: product_data['data'][headers[idx]] =
\* product[idx] for idx = 0 .. headers_cnt-1; a later assignment to the same
\* key replaces the earlier one.
LastIndexOf(headers, h) ==
    CHOOSE k \in 1..Len(headers) :
        /\ headers[k] = h
        /\ \A m \in (k+1)..Len(headers) : headers[m] # h

ProductData(product, headers) ==
    [h \in Range(headers) |-> product[LastIndexOf(headers, h)]]

\* Variant: the id taken from the row's last cell instead of its first.
convert_data_from_csv_last_cell(csv_products, headers) ==
    [r \in 1..Len(csv_products) |->
        [id |-> csv_products[r][Len(csv_products[r])],
         data |-> ProductData(csv_products[r], headers)]]

convert_data_from_csv(csv_products, headers) ==
    [r \in 1..Len(csv_products) |->
        [id |-> csv_products[r][1],
         data |-> ProductData(csv_products[r], headers)]]

\* prepare_data: next() on each reader skips its first row; the after file's
\* first row is the header list used for both files.
file_headers(after_csv_reader) == Head(after_csv_reader)

prepare_data(before_csv_reader, after_csv_reader) ==
    <<convert_data_from_csv(Tail(before_csv_reader), file_headers(after_csv_reader)),
      convert_data_from_csv(Tail(after_csv_reader), file_headers(after_csv_reader))>>

prepare_data_raises(before_csv_reader, after_csv_reader) ==
    \/ RaisesIndexError(Tail(before_csv_reader), file_headers(after_csv_reader))
    \/ RaisesIndexError(Tail(after_csv_reader), file_headers(after_csv_reader))

-----------------------------------------------------------------------------
(* find_suitable_product: the first product of the list with the id, or    *)
(* None.                                                                   *)

\* Variant: the loop keeps going after a match and returns the last one.
find_suitable_product_last(products, match_id) ==
    IF \E k \in 1..Len(products) : products[k].id = match_id
    THEN products[CHOOSE k \in 1..Len(products) :
                      /\ products[k].id = match_id
                      /\ \A m \in (k+1)..Len(products) : products[m].id # match_id]
    ELSE None

find_suitable_product(products, match_id) ==
    IF \E k \in 1..Len(products) : products[k].id = match_id
    THEN products[CHOOSE k \in 1..Len(products) :
                      /\ products[k].id = match_id
                      /\ \A m \in 1..(k-1) : products[m].id # match_id]
    ELSE None

-----------------------------------------------------------------------------
(* The bodies of the two loops of main.                                    *)

\* Variant: UPDATE carries the before product's data.
BeforeOperation_before_data(bp, ap, k) ==
    LET suitable_product == find_suitable_product(ap, bp[k].id)
    IN  IF suitable_product # None
        THEN [kind |-> "UPDATE", id |-> bp[k].id, payload |-> bp[k].data]
        ELSE [kind |-> "DELETE", id |-> bp[k].id, payload |-> None]

\* First loop, one iteration: before_products[k] yields UPDATE or DELETE.
BeforeOperation(bp, ap, k) ==
    LET suitable_product == find_suitable_product(ap, bp[k].id)
    IN  IF suitable_product # None
        THEN [kind |-> "UPDATE", id |-> bp[k].id, payload |-> suitable_product.data]
        ELSE [kind |-> "DELETE", id |-> bp[k].id, payload |-> None]

\* Variant: the second loop yields for every after product.
YieldsCreate_always(bp, ap, j) == TRUE

\* Second loop: does after_products[j] yield?
YieldsCreate(bp, ap, j) == find_suitable_product(bp, ap[j].id) = None

CreateOperation(after_product) ==
    [kind |-> "CREATE", id |-> after_product.id, payload |-> after_product.data]

\* Variant: the second loop walks the after list backwards.
NextCreate_last(bp, ap, from) ==
    IF \E j \in from..Len(ap) : YieldsCreate(bp, ap, j)
    THEN CHOOSE j \in from..Len(ap) :
             /\ YieldsCreate(bp, ap, j)
             /\ \A m \in (j+1)..Len(ap) : ~YieldsCreate(bp, ap, m)
    ELSE 0

\* Second loop resumed after after_products[from-1]: the index of the next
\* product that yields, 0 when the loop runs to its end.
NextCreate(bp, ap, from) ==
    IF \E j \in from..Len(ap) : YieldsCreate(bp, ap, j)
    THEN CHOOSE j \in from..Len(ap) :
             /\ YieldsCreate(bp, ap, j)
             /\ \A m \in from..(j-1) : ~YieldsCreate(bp, ap, m)
    ELSE 0

-----------------------------------------------------------------------------
(* The generator.                                                          *)

\* Control reaches the head of the second loop, at after_products[from]:
\* run to the next yield, or off the end of the with block.
RunSecondLoop(bp, ap, from) ==
    LET j == NextCreate(bp, ap, from)
    IN  IF j # 0
        THEN /\ pc' = "yield_create"
             /\ idx' = j
             /\ out' = Append(out, CreateOperation(ap[j]))
             /\ open_files' = {"before", "after"}
        ELSE /\ pc' = "done"
             /\ idx' = 0
             /\ out' = out
             /\ open_files' = {}

\* Variant: the first loop stops one product early.
RunFirstLoop_skip_last(bp, ap, k) ==
    IF k < Len(bp)
    THEN /\ pc' = "yield_before"
         /\ idx' = k
         /\ out' = Append(out, BeforeOperation(bp, ap, k))
         /\ open_files' = {"before", "after"}
    ELSE RunSecondLoop(bp, ap, 1)

\* Control reaches the head of the first loop, at before_products[k].
RunFirstLoop(bp, ap, k) ==
    IF k <= Len(bp)
    THEN /\ pc' = "yield_before"
         /\ idx' = k
         /\ out' = Append(out, BeforeOperation(bp, ap, k))
         /\ open_files' = {"before", "after"}
    ELSE RunSecondLoop(bp, ap, 1)

\* Variant: the product lists are shared between calls and only ever appended to.
Start_shared_lists ==
    /\ pc = "created"
    /\ IF prepare_data_raises(before_csv, after_csv)
       THEN /\ pc' = "raised"
            /\ open_files' = {}
            /\ UNCHANGED <<before_products, after_products, idx, out>>
       ELSE /\ before_products' =
                  before_products \o prepare_data(before_csv, after_csv)[1]
            /\ after_products' =
                  after_products \o prepare_data(before_csv, after_csv)[2]
            /\ RunFirstLoop(before_products', after_products', 1)
    /\ UNCHANGED <<files, prev_out, run>>

\* First next(): open both files, prepare the data, run to the first yield.
\* An IndexError of prepare_data leaves the with block and ends the generator.
Start ==
    /\ pc = "created"
    /\ IF prepare_data_raises(before_csv, after_csv)
       THEN /\ pc' = "raised"
            /\ open_files' = {}
            /\ UNCHANGED <<before_products, after_products, idx, out>>
       ELSE /\ before_products' = prepare_data(before_csv, after_csv)[1]
            /\ after_products' = prepare_data(before_csv, after_csv)[2]
            /\ RunFirstLoop(before_products', after_products', 1)
    /\ UNCHANGED <<files, prev_out, run>>

\* Variant: a matched product is removed from the after list.
ResumeFirstLoop_consuming ==
    /\ pc = "yield_before"
    /\ RunFirstLoop(before_products, after_products, idx + 1)
    /\ after_products' =
          IF /\ idx + 1 <= Len(before_products)
             /\ \E k \in 1..Len(after_products) :
                   after_products[k].id = before_products[idx + 1].id
          THEN LET hit == CHOOSE k \in 1..Len(after_products) :
                       /\ after_products[k].id = before_products[idx + 1].id
                       /\ \A m \in 1..(k-1) :
                             after_products[m].id # before_products[idx + 1].id
               IN  [n \in 1..(Len(after_products) - 1) |->
                       IF n < hit THEN after_products[n] ELSE after_products[n + 1]]
          ELSE after_products
    /\ UNCHANGED <<files, before_products, prev_out, run>>

\* next() while suspended at the yield of the first loop.
ResumeFirstLoop ==
    /\ pc = "yield_before"
    /\ RunFirstLoop(before_products, after_products, idx + 1)
    /\ UNCHANGED <<files, before_products, after_products, prev_out, run>>

\* next() while suspended at the yield of the second loop.
ResumeSecondLoop ==
    /\ pc = "yield_create"
    /\ RunSecondLoop(before_products, after_products, idx + 1)
    /\ UNCHANGED <<files, before_products, after_products, prev_out, run>>

\* close() (or collection) of a suspended generator: GeneratorExit is raised
\* at the yield and the with statement closes both files. Closing a generator
\* that never started runs none of its body.
Close ==
    /\ pc \in {"created", "yield_before", "yield_create"}
    /\ pc' = "closed"
    /\ open_files' = {}
    /\ UNCHANGED <<files, before_products, after_products, idx, out, prev_out, run>>

\* main() called a second time, after a fully consumed first run: a new
\* generator over the same two paths; no line of its body runs before the
\* first next().
main ==
    /\ pc = "done"
    /\ run = 1
    /\ run' = 2
    /\ prev_out' = out
    /\ out' = <<>>
    /\ pc' = "created"
    /\ idx' = 0
    /\ UNCHANGED <<files, open_files, before_products, after_products>>

Init ==
    /\ \E headers \in HeaderRows :
       \E nb \in 0..MaxRows :
       \E na \in 0..(MaxRows - nb) :
       \E b \in [1..nb -> DataRows(headers)] :
       \E a \in [1..na -> DataRows(headers)] :
          /\ before_csv = <<headers>> \o b
          /\ after_csv = <<headers>> \o a
    /\ open_files = {}
    /\ before_products = <<>>
    /\ after_products = <<>>
    /\ pc = "created"
    /\ idx = 0
    /\ out = <<>>
    /\ prev_out = <<>>
    /\ run = 1

Next ==
    \/ Start
    \/ ResumeFirstLoop
    \/ ResumeSecondLoop
    \/ Close
    \/ main

Spec == Init /\ [][Next]_vars

-----------------------------------------------------------------------------
(* Vocabulary of the properties.                                           *)

Ids(products) == {products[k].id : k \in 1..Len(products)}

UniqueIds(products) ==
    \A k, m \in 1..Len(products) : k # m => products[k].id # products[m].id

UniqueInputs == UniqueIds(before_products) /\ UniqueIds(after_products)

IdsOfSeq(products) == [k \in 1..Len(products) |-> products[k].id]

IsPrefix(s, t) == Len(s) <= Len(t) /\ \A n \in 1..Len(s) : s[n] = t[n]

IsCreate(op) == op.kind = "CREATE"
IsBeforeDerived(op) == op.kind \in {"UPDATE", "DELETE"}
OnlyInAfter(product) == product.id \notin Ids(before_products)

\* Number of operations a fully consumed run yields.
TotalOperations ==
    Len(before_products) + Len(SelectSeq(after_products, OnlyInAfter))

Suspended == pc \in {"yield_before", "yield_create"}

-----------------------------------------------------------------------------
C3_Ordering ==
    /\ \A n, m \in 1..Len(out) :
          (n < m /\ IsCreate(out[n])) => IsCreate(out[m])
    /\ IsPrefix(IdsOfSeq(SelectSeq(out, IsBeforeDerived)),
                IdsOfSeq(before_products))
    /\ IsPrefix(IdsOfSeq(SelectSeq(out, IsCreate)),
                IdsOfSeq(SelectSeq(after_products, OnlyInAfter)))
    /\ pc = "done" =>
          /\ Len(SelectSeq(out, IsBeforeDerived)) = Len(before_products)
          /\ Len(SelectSeq(out, IsCreate)) =
                Len(SelectSeq(after_products, OnlyInAfter))

\* A finished run of three operations holding both a before-derived operation
\* and a CREATE.
C3_Witness ==
    /\ pc = "done"
    /\ Len(out) = 3
    /\ \E n \in 1..Len(out) : IsCreate(out[n])
    /\ \E n \in 1..Len(out) : IsBeforeDerived(out[n])

\* C4: an UPDATE is emitted only for a product of both lists with at least
\* one differing field value (ids unique per list).
C4_UpdateOnlyWhenChanged ==
    UniqueInputs =>
        \A n \in 1..Len(out) :
            out[n].kind = "UPDATE" =>
                \E p \in Range(before_products) : \E q \in Range(after_products) :
                    /\ p.id = out[n].id
                    /\ q.id = out[n].id
                    /\ p.data # q.data

\* C5: a finished run with an empty before list emitted exactly the CREATE of
\* every after record in after's order; with an empty after list exactly the
\* DELETE with None of every before record in before's order; with both empty
\* nothing.
C5_EmptySetLaws ==
    pc = "done" =>
        /\ before_products = <<>> =>
              out = [j \in 1..Len(after_products) |->
                        [kind |-> "CREATE", id |-> after_products[j].id,
                         payload |-> after_products[j].data]]
        /\ after_products = <<>> =>
              out = [k \in 1..Len(before_products) |->
                        [kind |-> "DELETE", id |-> before_products[k].id,
                         payload |-> None]]
        /\ (before_products = <<>> /\ after_products = <<>>) => out = <<>>

\* A finished run over an empty after list and two before records.
C5_Witness ==
    /\ pc = "done"
    /\ after_products = <<>>
    /\ Len(before_products) >= 2
    /\ Len(out) >= 2

\* C6: while the stream is suspended after k operations, 0 < k < total,
\* neither CSV file handle is open.
C6_NoOpenHandleWhileSuspended ==
    (Suspended /\ 0 < Len(out) /\ Len(out) < TotalOperations) =>
        open_files = {}

\* C7: no step after prepare_data changes the before or the after list.
C7_NoMutation ==
    [][pc # "created" =>
          /\ before_products' = before_products
          /\ after_products' = after_products]_vars

\* A finished run that looked up and emitted operations from both lists.
C7_Witness ==
    /\ pc = "done"
    /\ before_products = prepare_data(before_csv, after_csv)[1]
    /\ after_products = prepare_data(before_csv, after_csv)[2]
    /\ \E n \in 1..Len(out) : out[n].kind = "UPDATE"
    /\ \E n \in 1..Len(out) : out[n].kind = "CREATE"

C9_IdColumnInPayload ==
    \A n \in 1..Len(out) :
        (out[n].kind # "DELETE" /\ Len(file_headers(after_csv)) >= 1) =>
            out[n].payload[file_headers(after_csv)[1]] = out[n].id

FirstHeaderNotRepeated ==
    \A k \in 2..Len(file_headers(after_csv)) :
        file_headers(after_csv)[k] # file_headers(after_csv)[1]

\* C9 amended: the same, when the first header name is not the name of a
\* later column.
C9_IdColumnInPayloadAmended ==
    FirstHeaderNotRepeated => C9_IdColumnInPayload

\* An UPDATE and a CREATE emitted from two-column rows under two distinct
\* header names.
C9_Witness ==
    /\ Len(file_headers(after_csv)) = 2
    /\ FirstHeaderNotRepeated
    /\ \E n \in 1..Len(out) : out[n].kind = "UPDATE"
    /\ \E n \in 1..Len(out) : out[n].kind = "CREATE"

FirstWithId(products, id) ==
    CHOOSE k \in 1..Len(products) :
        /\ products[k].id = id
        /\ \A m \in 1..(k-1) : products[m].id # id

Occurrences(products, id) ==
    Cardinality({k \in 1..Len(products) : products[k].id = id})

\* C10: every UPDATE carries the field mapping of the first after record with
\* its id; and a finished run emitted, for an id held n times by the before
\* list, n operations, all of one kind.
C10_DuplicatePolicy ==
    /\ \A n \in 1..Len(out) :
          out[n].kind = "UPDATE" =>
              out[n].payload =
                  after_products[FirstWithId(after_products, out[n].id)].data
    /\ pc = "done" =>
          \A id \in Ids(before_products) :
              /\ Cardinality({n \in 1..Len(out) : out[n].id = id}) =
                    Occurrences(before_products, id)
              /\ \A n, m \in 1..Len(out) :
                    (out[n].id = id /\ out[m].id = id) =>
                        out[n].kind = out[m].kind

\* A finished run where the after list holds two records of one id with
\* different field mappings and the before list holds that id.
C10_Witness ==
    /\ pc = "done"
    /\ \E k, m \in 1..Len(after_products) :
          /\ k < m
          /\ after_products[k].id = after_products[m].id
          /\ after_products[k].data # after_products[m].data
          /\ after_products[k].id \in Ids(before_products)

====
